---- MODULE Spec2Model ----
(***************************************************************************)
(* Verification model of the Chronicle chapter pipeline:                   *)
(*   scripts/baidu_image_search.py  (extract_image_placeholders,           *)
(*                                   BaiduImageSearcher.search_and_get_url)*)
(*   scripts/generate_chapter.py    (ChapterGenerator, main)               *)
(*   scripts/update_main_readme.py  (get_generated_chapters,               *)
(*                                   generate_readme_content, main)        *)
(*                                                                         *)
(* Text is a sequence of characters.  A character is a one-letter string;  *)
(* a few longer strings stand for literal pieces of text that contain      *)
(* neither an underscore nor white space and are never split:              *)
(*   "https://images/"  ".jpg"  "images"  and the fallback keyword.        *)
(* Of the image extensions of line 381 only ".jpg" occurs in the texts.    *)
(* The image provider is an external service: search_and_get_url is        *)
(* modelled by its two documented results, None or a non-empty URL string, *)
(* and the provider is free to choose the characters of the URL.           *)
(* The variable calls records the searches made, for the properties.       *)
(***************************************************************************)
EXTENDS Integers, Sequences, FiniteSets, TLC

US == "_"
SP == " "
HTTPS_IMAGES == "https://images/"
EXT == ".jpg"

None == <<"None">>

(***************************************************************************)
(* Bounds of the model.                                                    *)
(***************************************************************************)
MaxPieces == 3

(***************************************************************************)
(* Text helpers.                                                           *)
(***************************************************************************)
RECURSIVE Flatten(_)
Flatten(ss) == IF ss = <<>> THEN <<>> ELSE Head(ss) \o Flatten(Tail(ss))

\* s[from..] for 1-based from, empty when from is past the end
Drop(s, n) == SubSeq(s, n + 1, Len(s))

\* length of the longest run of characters of s, starting at position p,
\* that are not in the set stop
RECURSIVE RunLen(_, _, _)
RunLen(s, p, stop) ==
  IF p > Len(s) \/ s[p] \in stop THEN 0 ELSE 1 + RunLen(s, p + 1, stop)

StartsWithAt(s, p, t) ==
  /\ p + Len(t) - 1 <= Len(s)
  /\ SubSeq(s, p, p + Len(t) - 1) = t

\* str.find(t, p): leftmost position >= p where t occurs in s, 0 when none
RECURSIVE FindFrom(_, _, _)
FindFrom(s, t, p) ==
  IF p + Len(t) - 1 > Len(s) THEN 0
  ELSE IF StartsWithAt(s, p, t) THEN p
  ELSE FindFrom(s, t, p + 1)

\* a global replace in place of the replace of the first occurrence
RECURSIVE ReplaceEvery(_, _, _)
ReplaceEvery(s, old, new) ==
  LET q == FindFrom(s, old, 1) IN
  IF q = 0 THEN s
  ELSE SubSeq(s, 1, q - 1) \o new
       \o ReplaceEvery(Drop(s, q + Len(old) - 1), old, new)

\* str.replace(old, new, 1): only the leftmost occurrence is replaced
ReplaceFirst(s, old, new) ==
  LET q == FindFrom(s, old, 1) IN
  IF q = 0 THEN s
  ELSE SubSeq(s, 1, q - 1) \o new \o Drop(s, q + Len(old) - 1)

\* str.strip(): leading and trailing white space removed
RECURSIVE LStrip(_)
LStrip(s) == IF s # <<>> /\ Head(s) = SP THEN LStrip(Tail(s)) ELSE s

RECURSIVE RStrip(_)
RStrip(s) ==
  IF s # <<>> /\ s[Len(s)] = SP THEN RStrip(SubSeq(s, 1, Len(s) - 1)) ELSE s

Strip(s) == RStrip(LStrip(s))

(***************************************************************************)
(* baidu_image_search.py: extract_image_placeholders                       *)
(***************************************************************************)
\* one attempt of the pattern  __([^_]+)__  at position p: the end position
\* of the match, or 0.  [^_]+ is greedy and cannot cross an underscore, so
\* the only candidate is the whole run of non-underscore characters.
MatchEndAt(s, p) ==
  IF ~StartsWithAt(s, p, <<US, US>>) THEN 0
  ELSE LET r == RunLen(s, p + 2, {US}) IN
       IF r >= 1 /\ StartsWithAt(s, p + 2 + r, <<US, US>>)
       THEN p + 2 + r + 1
       ELSE 0

\* re.finditer(placeholder_pattern, content): the non-overlapping matches,
\* left to right, as records [start, end] (1-based, inclusive)
RECURSIVE FindIter(_, _)
FindIter(s, p) ==
  IF p > Len(s) THEN <<>>
  ELSE LET e == MatchEndAt(s, p) IN
       IF e = 0 THEN FindIter(s, p + 1)
       ELSE <<[start |-> p, end |-> e]>> \o FindIter(s, e + 1)

\* the loop body of lines 201-208: tuples (position, info); matches whose
\* stripped keyword is empty are dropped
RECURSIVE KeepKeyworded(_, _)
KeepKeyworded(s, ms) ==
  IF ms = <<>> THEN <<>>
  ELSE LET m  == Head(ms)
           kw == Strip(SubSeq(s, m.start + 2, m.end - 2))
       IN  (IF kw # <<>>
            THEN << <<m.start, [keyword |-> kw,
                                path    |-> SubSeq(s, m.start, m.end)]>> >>
            ELSE <<>>) \o KeepKeyworded(s, Tail(ms))

\* list.sort / sorted with a key: stable insertion sort of <<key, value>>
\* pairs by their key
RECURSIVE InsertByKey(_, _)
InsertByKey(x, xs) ==
  IF xs = <<>> THEN <<x>>
  ELSE IF x[1] < Head(xs)[1] THEN <<x>> \o xs
  ELSE <<Head(xs)>> \o InsertByKey(x, Tail(xs))

RECURSIVE SortByKey(_)
SortByKey(xs) ==
  IF xs = <<>> THEN <<>>
  ELSE InsertByKey(xs[Len(xs)], SortByKey(SubSeq(xs, 1, Len(xs) - 1)))

\* placeholder_positions after the sort of line 211
placeholder_positions(content) ==
  SortByKey(KeepKeyworded(content, FindIter(content, 1)))

\* enumerate without its start argument
IndexFromZero(i) == i - 1

\* enumerate(placeholder_positions, 1): the index given to the i-th entry
IndexOf(i) == i

\* lines 214-218
extract_image_placeholders(content) ==
  LET pp == placeholder_positions(content) IN
  [i \in 1..Len(pp) |->
     [keyword |-> pp[i][2].keyword, path |-> pp[i][2].path,
      index   |-> IndexOf(i)]]

(***************************************************************************)
(* generate_chapter.py: the inputs of the model                            *)
(***************************************************************************)
\* the chapter ids of the plans and of the chapter directories
Ids == {1, 2, 3}

\* chapter['keywords'] of the plan entries: a chapter with keywords and
\* chapters without
KeywordsOf(id) == IF id = 1 THEN << <<"k">>, <<"m">> >> ELSE <<>>

Chapter(id) == [id |-> id, keywords |-> KeywordsOf(id)]

\* chapters_plan["chapters"]: the plans the runs are checked with, as the
\* sequences of chapter ids in plan order
Plans == { <<1, 2, 3>>, <<2, 1, 3>>, <<1, 3>> }

\* config["images"]: enabled and search_source
Sources == {"baidu", "local"}
Configs == [enabled : BOOLEAN, search_source : Sources]

\* image_config.get("image_dir", "images")
ImageDir == "images"

\* what search_and_get_url can return for a keyword: None or a URL.  The
\* provider is free to put underscores in a URL.
Urls == { <<"u">>, <<"v", US>>, <<"w", US, US, "a", US, US>> }
SearchResults == Urls \cup {None}

\* the pieces the content strings are built of: single characters, two whole
\* placeholders (one with a space after its keyword), a placeholder with a
\* blank keyword, an image link
Pieces == { <<US>>, <<"a">>, <<SP>>,
            <<US, US, "a", US, US>>,
            <<US, US, "b", SP, US, US>>,
            <<US, US, SP, US, US>>,
            <<HTTPS_IMAGES, "a", EXT>> }

RECURSIVE PieceSeqs(_)
PieceSeqs(n) ==
  IF n = 0 THEN { <<>> }
  ELSE LET shorter == PieceSeqs(n - 1) IN
       shorter \cup { Append(ps, x) : ps \in shorter, x \in Pieces }

\* the content strings _process_images is applied to
Contents == { Flatten(ps) : ps \in PieceSeqs(MaxPieces) }

\* the texts the content generator returns in a run
GenContents == { <<"a">>, <<US, US, "a", US, US>> }

\* the body of an artifact written before the first modelled run
OldBody == <<"o">>
NoFile == [chapter |-> 0, body |-> <<>>]
Artifact(id, body) == [chapter |-> id, body |-> body]
\* a file that open(readme_path, 'w') left behind when the write failed
Truncated == [chapter |-> 0, body |-> <<"truncated">>]

NoChapter == [id |-> 0, keywords |-> <<>>]
\* sys.argv: no argument, an integer, or text that int() rejects
NoArg == [kind |-> "none", value |-> 0]
BadArg == [kind |-> "text", value |-> 0]
IntArg(n) == [kind |-> "int", value |-> n]
ArgIds == {0} \cup Ids

(***************************************************************************)
(* State.                                                                  *)
(***************************************************************************)
VARIABLES
  config,        \* self.config["images"], loaded from config/config.json
  plan,          \* self.chapters_plan["chapters"], as chapter ids
  files,         \* chapters/chapter_NN/README.md, per id: artifact or NoFile
  dirs,          \* the ids whose chapters/chapter_NN directory exists
  imageDirs,     \* the ids whose chapters/chapter_NN/images directory exists
  pc,            \* position of the run
  caller,        \* who runs: "main" (the script) or "direct" (a call of
                 \* _process_images by itself)
  argv,          \* sys.argv[1] of the run, or NoArg
  chapter,       \* the chapter being generated
  raw,           \* the text returned by _call_deepseek_api
  content,       \* the working content of _process_images
  placeholders,  \* placeholders_sorted
  idx,           \* the loop counter i of _process_images
  calls,         \* the calls of search_and_get_url so far: keyword, result
  ret,           \* return value of generate_next/specific_chapter
  exitCode,      \* exit status of the process
  readme         \* what the main README.md says of the progress

vars == <<config, plan, files, dirs, imageDirs, pc, caller, argv, chapter, raw,
          content, placeholders, idx, calls, ret, exitCode, readme>>

fsVars == <<files, dirs, imageDirs>>
imgVars == <<content, placeholders, idx, calls>>

\* no value returned yet; the process has not exited yet
NoRet == "none"
NoExit == 0 - 1

(***************************************************************************)
(* generate_chapter.py: _get_next_chapter_to_generate                      *)
(***************************************************************************)
\* readme_path.exists()
ReadmeExists(fs, id) == fs[id] # NoFile

\* a cursor in place of the scan: the plan entry after as many entries as
\* there are chapter files
FirstMissingByCount(p, fs, i) ==
  LET n == Cardinality({ k \in 1..Len(p) : ReadmeExists(fs, p[k]) }) IN
  IF n >= Len(p) THEN 0 ELSE p[n + 1]

RECURSIVE FirstMissing(_, _, _)
FirstMissing(p, fs, i) ==
  IF i > Len(p) THEN 0
  ELSE IF ~ReadmeExists(fs, p[i]) THEN p[i]
  ELSE FirstMissing(p, fs, i + 1)

\* the id of the returned chapter, 0 for None
get_next_chapter_to_generate(p, fs) == FirstMissing(p, fs, 1)

\* an id that is not in the plan answered with the first plan entry
FindChapterOrFirst(p, id, i) ==
  IF \E k \in 1..Len(p) : p[k] = id THEN id ELSE p[1]

\* lines 443-447 of generate_specific_chapter: the plan entry with the id
RECURSIVE FindChapter(_, _, _)
FindChapter(p, id, i) ==
  IF i > Len(p) THEN 0
  ELSE IF p[i] = id THEN p[i]
  ELSE FindChapter(p, id, i + 1)

(***************************************************************************)
(* generate_chapter.py: _process_images                                    *)
(***************************************************************************)
\* the placeholders taken from the last to the first
SortedByIndexDescending(ps) == [i \in 1..Len(ps) |-> ps[Len(ps) + 1 - i]]

\* line 341: sorted(placeholders, key=lambda x: x["index"])
SortedByIndex(ps) ==
  LET sorted == SortByKey([i \in 1..Len(ps) |-> <<ps[i].index, ps[i]>>]) IN
  [i \in 1..Len(sorted) |-> sorted[i][2]]

\* lines 349-358: the keyword searched for a placeholder
SearchKeyword(ch, ph) ==
  LET kw == Strip(ph.keyword) IN
  IF kw # <<>> THEN kw
  ELSE IF ch.keywords # <<>>
       THEN ch.keywords[((ph.index - 1) % Len(ch.keywords)) + 1]
       ELSE <<"历史">>

\* line 369: f"![{search_keyword}]({image_url})"
Markdown(kw, url) == <<"!", "[">> \o kw \o <<"]", "(">> \o url \o <<")">>

\* the substitution without the test of image_url
SubstituteUnchecked(text, ph, kw, url) ==
  ReplaceFirst(text, ph.path, Markdown(kw, url))

\* lines 365-375: the working content after one placeholder
Substitute(text, ph, kw, url) ==
  IF url # None THEN ReplaceFirst(text, ph.path, Markdown(kw, url)) ELSE text

\* lines 380-385: https://images/<name>.jpg becomes <image_dir>/<name>.jpg.
\* [^\s\n]+ is greedy: the name runs to the last ".jpg" of the run of
\* non-blank characters and holds at least one character before it.
RECURSIVE LastExt(_, _, _)
LastExt(s, p, j) ==
  IF j < 2 THEN 0
  ELSE IF s[p + j] = EXT THEN j
  ELSE LastExt(s, p, j - 1)

RECURSIVE RewriteUrls(_, _)
RewriteUrls(s, p) ==
  IF p > Len(s) THEN <<>>
  ELSE LET j == IF s[p] = HTTPS_IMAGES
                THEN LastExt(s, p, RunLen(s, p + 1, {SP}))
                ELSE 0
       IN  IF j = 0 THEN <<s[p]>> \o RewriteUrls(s, p + 1)
           ELSE <<ImageDir, "/">> \o SubSeq(s, p + 1, p + j)
                \o RewriteUrls(s, p + j + 1)

(***************************************************************************)
(* update_main_readme.py                                                   *)
(***************************************************************************)
\* the ids in ascending order
RECURSIVE Ascending(_)
Ascending(S) ==
  IF S = {} THEN <<>>
  ELSE LET m == CHOOSE x \in S : \A y \in S : x <= y
       IN  <<m>> \o Ascending(S \ {m})

\* lines 26-32: the chapter_NN directories in name order that hold a
\* README.md, as chapter numbers
get_generated_chapters(fs, ds) ==
  Ascending({ id \in ds : ReadmeExists(fs, id) })

\* line 115: the plan entry at index generated_count, 0 for the words
\* "all chapters done"
NextChapterLine(p, generated) ==
  IF Len(generated) < Len(p) THEN p[Len(generated) + 1] ELSE 0

\* lines 61-68 and 114-115 of generate_readme_content: the counts, the plan
\* chapters shown with a link, the chapter named as the next one
generate_readme_content(p, generated) ==
  [ generated_count |-> Len(generated),
    total_chapters  |-> Len(p),
    linked          |-> { p[i] : i \in { k \in 1..Len(p) :
                             \E j \in 1..Len(generated) : generated[j] = p[k] } },
    next            |-> NextChapterLine(p, generated) ]

\* no README.md written yet
NoReadme == [ generated_count |-> 0, total_chapters |-> 0, linked |-> {},
              next |-> 0 ]

(***************************************************************************)
(* Initial states.                                                         *)
(***************************************************************************)
\* the chapter files a run can find on disk, none written by a modelled run
InitFiles == { [id \in Ids |-> IF id \in S THEN Artifact(id, OldBody) ELSE NoFile]
               : S \in SUBSET Ids }

RunLocalInit ==
  /\ argv = NoArg
  /\ chapter = NoChapter
  /\ raw = <<>>
  /\ content = <<>>
  /\ placeholders = <<>>
  /\ idx = 0
  /\ calls = <<>>
  /\ ret = NoRet
  /\ exitCode = NoExit

\* before the first run of main()
Init ==
  /\ config \in Configs
  /\ plan \in Plans
  /\ files \in InitFiles
  /\ dirs = { id \in Ids : files[id] # NoFile }
  /\ imageDirs = {}
  /\ pc = "idle"
  /\ caller = "main"
  /\ readme = NoReadme
  /\ RunLocalInit

\* a call _process_images(chapter, content, chapter_dir) on its own
InitImg ==
  /\ config \in Configs
  /\ plan = <<1, 2, 3>>
  /\ files = [id \in Ids |-> NoFile]
  /\ dirs = {}
  /\ imageDirs = {}
  /\ pc = "images"
  /\ caller = "direct"
  /\ readme = NoReadme
  /\ argv = NoArg
  /\ chapter \in { Chapter(1), Chapter(2) }
  /\ raw \in Contents
  /\ content = raw
  /\ placeholders = <<>>
  /\ idx = 0
  /\ calls = <<>>
  /\ ret = NoRet
  /\ exitCode = NoExit

(***************************************************************************)
(* main() and ChapterGenerator: one run of the script                      *)
(***************************************************************************)
\* a new process starts where the previous one left the file system
Startable ==
  \/ pc \in {"idle", "exited"}
  \/ pc = "assembled" /\ caller = "direct"

Exit(code, r) ==
  /\ pc' = "exited"
  /\ caller' = "main"
  /\ exitCode' = code
  /\ ret' = r

ResetImages ==
  /\ content' = <<>>
  /\ placeholders' = <<>>
  /\ idx' = 0
  /\ calls' = <<>>

\* ChapterGenerator() raises: config or plan file missing or malformed
\* (lines 77-78), or API key not set (lines 84-98); main catches it at 509
ConfigError ==
  /\ Startable
  /\ \E a \in {NoArg, BadArg} \cup { IntArg(n) : n \in ArgIds } : argv' = a
  /\ \E cause \in {"config", "plan", "api_key"} : Exit(1, NoRet)
  /\ chapter' = NoChapter /\ raw' = <<>>
  /\ ResetImages
  /\ UNCHANGED <<config, plan, readme, fsVars>>

\* lines 498-504: int(sys.argv[1]) raises ValueError
InvalidChapterId ==
  /\ Startable
  /\ argv' = BadArg
  /\ Exit(1, NoRet)
  /\ chapter' = NoChapter /\ raw' = <<>>
  /\ ResetImages
  /\ UNCHANGED <<config, plan, readme, fsVars>>

\* generate_next_chapter, lines 397-401: every chapter has its file
NothingToDo ==
  /\ Startable
  /\ argv' = NoArg
  /\ get_next_chapter_to_generate(plan, files) = 0
  /\ Exit(0, "False")
  /\ chapter' = NoChapter /\ raw' = <<>>
  /\ ResetImages
  /\ UNCHANGED <<config, plan, readme, fsVars>>

\* generate_specific_chapter, lines 443-451: the id is not in the plan
ChapterNotFound ==
  /\ Startable
  /\ \E id \in ArgIds :
       /\ argv' = IntArg(id)
       /\ FindChapter(plan, id, 1) = 0
  /\ Exit(0, "False")
  /\ chapter' = NoChapter /\ raw' = <<>>
  /\ ResetImages
  /\ UNCHANGED <<config, plan, readme, fsVars>>

\* the chapter a run with argument a works on, 0 for none
SelectedId(a) ==
  IF a = NoArg THEN get_next_chapter_to_generate(plan, files)
  ELSE FindChapter(plan, a.value, 1)

\* _create_chapter_prompt raises (template file missing, line 174); the
\* exception leaves generate_*_chapter and main catches it at 509
PromptError ==
  /\ Startable
  /\ \E a \in {NoArg} \cup { IntArg(n) : n \in ArgIds } :
       /\ argv' = a
       /\ SelectedId(a) # 0
       /\ chapter' = Chapter(SelectedId(a))
  /\ Exit(1, NoRet)
  /\ raw' = <<>>
  /\ ResetImages
  /\ UNCHANGED <<config, plan, readme, fsVars>>

\* generate_next_chapter, lines 397-410: a chapter is pending
BeginNext ==
  /\ Startable
  /\ argv' = NoArg
  /\ get_next_chapter_to_generate(plan, files) # 0
  /\ chapter' = Chapter(get_next_chapter_to_generate(plan, files))
  /\ pc' = "api"
  /\ caller' = "main"
  /\ ret' = NoRet /\ exitCode' = NoExit /\ raw' = <<>>
  /\ ResetImages
  /\ UNCHANGED <<config, plan, readme, fsVars>>

\* generate_specific_chapter, lines 443-460: the id is in the plan
BeginSpecific ==
  /\ Startable
  /\ \E id \in ArgIds :
       /\ argv' = IntArg(id)
       /\ FindChapter(plan, id, 1) # 0
       /\ chapter' = Chapter(FindChapter(plan, id, 1))
  /\ pc' = "api"
  /\ caller' = "main"
  /\ ret' = NoRet /\ exitCode' = NoExit /\ raw' = <<>>
  /\ ResetImages
  /\ UNCHANGED <<config, plan, readme, fsVars>>

\* the flag taken as set whatever the configuration says
ImagesEnabledAlways(cfg) == TRUE

\* config.get("images", {}).get("enabled", False)
ImagesEnabled(cfg) == cfg.enabled

\* the exit status main() gives for the return value of generate_*_chapter:
\* the value is dropped (lines 501, 507) and the process ends normally
ExitCodeOf(r) == 0

\* the chapter directory made before the API call instead of after it
ApiFailAfterMkdir ==
  /\ pc = "api"
  /\ Exit(ExitCodeOf("False"), "False")
  /\ dirs' = dirs \cup {chapter.id}
  /\ UNCHANGED <<config, plan, readme, files, imageDirs, argv, chapter, raw,
                 imgVars>>

\* lines 411-415 / 461-465: _call_deepseek_api raises, the run returns False
ApiFail ==
  /\ pc = "api"
  /\ Exit(ExitCodeOf("False"), "False")
  /\ UNCHANGED <<config, plan, readme, fsVars, argv, chapter, raw, imgVars>>

\* lines 412-422 / 462-472: the text arrives; _process_images is called only
\* when config["images"]["enabled"]
ApiOk ==
  /\ pc = "api"
  /\ \E text \in GenContents :
       /\ raw' = text
       /\ content' = text
  /\ pc' = IF ImagesEnabled(config) THEN "images" ELSE "assembled"
  /\ UNCHANGED <<config, plan, readme, fsVars, caller, argv, chapter, placeholders,
                 idx, calls, ret, exitCode>>

\* _process_images(chapter, content, chapter_dir) called by itself, with a
\* chapter of the plan and a text
CallProcessImages ==
  /\ Startable
  /\ \E i \in 1..Len(plan) : chapter' = Chapter(plan[i])
  /\ \E text \in GenContents :
       /\ raw' = text
       /\ content' = text
  /\ pc' = "images"
  /\ caller' = "direct"
  /\ argv' = NoArg /\ ret' = NoRet /\ exitCode' = NoExit
  /\ placeholders' = <<>> /\ idx' = 0 /\ calls' = <<>>
  /\ UNCHANGED <<config, plan, readme, fsVars>>

\* the early return of line 327 never taken
NoPlaceholdersNever(found) == FALSE

\* line 327: not placeholders
NoPlaceholders(found) == found = <<>>

\* baidu_image_search imported (lines 53-60): both names are defined
SearchAvailable == TRUE

\* _process_images, lines 323-343 and 378-388: up to the first search, or
\* to the return when there is no search
ProcessImagesEnter ==
  /\ pc = "images"
  /\ LET found == extract_image_placeholders(content) IN
     IF ~SearchAvailable \/ NoPlaceholders(found) \/ ~ImagesEnabled(config)
     THEN /\ pc' = "assembled"
          /\ UNCHANGED imgVars
     ELSE IF config.search_source = "baidu"
     THEN /\ placeholders' = SortedByIndex(found)
          /\ idx' = 1
          /\ pc' = "loop"
          /\ UNCHANGED <<content, calls>>
     ELSE /\ content' = RewriteUrls(content, 1)
          /\ pc' = "assembled"
          /\ UNCHANGED <<placeholders, idx, calls>>
  /\ UNCHANGED <<config, plan, readme, fsVars, caller, argv, chapter, raw, ret,
                 exitCode>>

\* _process_images, lines 345-375: one iteration of the loop, with the
\* result of search_and_get_url
SearchStep ==
  /\ pc = "loop"
  /\ \E url \in SearchResults :
       LET ph == placeholders[idx]
           kw == SearchKeyword(chapter, ph)
       IN  /\ calls' = Append(calls, [keyword |-> kw, url |-> url])
           /\ content' = Substitute(content, ph, kw, url)
  /\ idx' = idx + 1
  /\ pc' = IF idx = Len(placeholders) THEN "assembled" ELSE "loop"
  /\ UNCHANGED <<config, plan, readme, fsVars, caller, argv, chapter, raw,
                 placeholders, ret, exitCode>>

\* the directory numbered by the place of the chapter in the plan, not by
\* its id
SaveChapterByPosition ==
  /\ pc = "assembled" /\ caller = "main"
  /\ LET n == CHOOSE i \in 1..Len(plan) : plan[i] = chapter.id IN
     /\ dirs' = dirs \cup {n}
     /\ imageDirs' = IF ImagesEnabled(config) THEN imageDirs \cup {n}
                     ELSE imageDirs
     /\ files' = [files EXCEPT ![n] = Artifact(chapter.id, content)]
  /\ Exit(ExitCodeOf("True"), "True")
  /\ UNCHANGED <<config, plan, readme, argv, chapter, raw, imgVars>>

\* _save_chapter, lines 280-306, then the return True of lines 428-431
SaveChapter ==
  /\ pc = "assembled" /\ caller = "main"
  /\ dirs' = dirs \cup {chapter.id}
  /\ imageDirs' = IF ImagesEnabled(config) THEN imageDirs \cup {chapter.id}
                  ELSE imageDirs
  /\ files' = [files EXCEPT ![chapter.id] = Artifact(chapter.id, content)]
  /\ Exit(ExitCodeOf("True"), "True")
  /\ UNCHANGED <<config, plan, readme, argv, chapter, raw, imgVars>>

\* _save_chapter raises, and main catches it at 509: mkdir fails (line 282),
\* open fails (line 303) after the directories were made, or write fails
\* (line 304) after open(readme_path, 'w') created or emptied the file
SaveFail ==
  /\ pc = "assembled" /\ caller = "main"
  /\ \E stage \in {"mkdir", "open", "write"} :
       /\ IF stage = "mkdir"
          THEN UNCHANGED <<dirs, imageDirs>>
          ELSE /\ dirs' = dirs \cup {chapter.id}
               /\ imageDirs' = IF ImagesEnabled(config)
                               THEN imageDirs \cup {chapter.id}
                               ELSE imageDirs
       /\ files' = IF stage = "write"
                   THEN [files EXCEPT ![chapter.id] = Truncated]
                   ELSE files
  /\ Exit(1, NoRet)
  /\ UNCHANGED <<config, plan, readme, argv, chapter, raw, imgVars>>

Next ==
  \/ ConfigError
  \/ InvalidChapterId
  \/ NothingToDo
  \/ ChapterNotFound
  \/ PromptError
  \/ BeginNext
  \/ BeginSpecific
  \/ ApiFail
  \/ ApiOk
  \/ CallProcessImages
  \/ ProcessImagesEnter
  \/ SearchStep
  \/ SaveChapter
  \/ SaveFail

Spec == Init /\ [][Next]_vars

NextImg ==
  \/ ProcessImagesEnter
  \/ SearchStep

SpecImg == InitImg /\ [][NextImg]_vars

\* main() started without an argument every time (lines 505-507)
NextNoArg ==
  \/ ConfigError /\ argv' = NoArg
  \/ PromptError /\ argv' = NoArg
  \/ NothingToDo
  \/ BeginNext
  \/ ApiFail
  \/ ApiOk
  \/ ProcessImagesEnter
  \/ SearchStep
  \/ SaveChapter
  \/ SaveFail

SpecNoArg == Init /\ [][NextNoArg]_vars

\* main() of update_main_readme.py, lines 141-153, run between two runs of
\* the generator
UpdateMainReadme ==
  /\ Startable
  /\ readme' = generate_readme_content(plan, get_generated_chapters(files, dirs))
  /\ UNCHANGED <<config, plan, fsVars, pc, caller, argv, chapter, raw, imgVars,
                 ret, exitCode>>

\* the workflow: runs of the generator that get past the constructor and
\* the argument, and the README script, in any order
NextReadme ==
  \/ NothingToDo
  \/ ChapterNotFound
  \/ BeginNext
  \/ BeginSpecific
  \/ ApiFail
  \/ ApiOk
  \/ ProcessImagesEnter
  \/ SearchStep
  \/ SaveChapter
  \/ SaveFail
  \/ UpdateMainReadme

SpecReadme == Init /\ [][NextReadme]_vars

(***************************************************************************)
(* Vocabulary of the properties.                                           *)
(***************************************************************************)
\* _process_images has returned
Returned == pc = "assembled"

BaiduOn == config.enabled /\ config.search_source = "baidu"

\* the extracted placeholders of the input, with their positions
Found == placeholder_positions(raw)

\* position, raw token and keyword of the i-th entry of such a list
PosOf(pp, i) == pp[i][1]
PathOf(pp, i) == pp[i][2].path
KeywordOf(pp, i) == pp[i][2].keyword

\* some substring matches  __ non-underscores __
HasToken(s) == FindIter(s, 1) # <<>>

HasDoubleUnderscore(s) == FindFrom(s, <<US, US>>, 1) # 0

AllResolved == \A i \in 1..Len(calls) : calls[i].url # None
NoneResolved == \A i \in 1..Len(calls) : calls[i].url = None

\* the image link of the i-th call
LinkOf(pp, i) == Markdown(KeywordOf(pp, i), calls[i].url)

\* growth of the text by the i-th call
GrowthOf(pp, i) ==
  IF calls[i].url = None THEN 0 ELSE Len(LinkOf(pp, i)) - Len(PathOf(pp, i))

RECURSIVE GrowthBefore(_, _)
GrowthBefore(pp, i) ==
  IF i <= 1 THEN 0 ELSE GrowthBefore(pp, i - 1) + GrowthOf(pp, i - 1)

\* where the i-th placeholder's own match starts in the output, when every
\* earlier substitution was made at the earlier placeholder's own match
OwnPosition(pp, i) == PosOf(pp, i) + GrowthBefore(pp, i)

\* the input with every resolved placeholder replaced at its own match
RECURSIVE PositionalSubst(_, _, _)
PositionalSubst(pp, i, from) ==
  IF i > Len(pp) THEN SubSeq(raw, from, Len(raw))
  ELSE SubSeq(raw, from, PosOf(pp, i) - 1)
       \o (IF calls[i].url # None THEN LinkOf(pp, i) ELSE PathOf(pp, i))
       \o PositionalSubst(pp, i + 1, PosOf(pp, i) + Len(PathOf(pp, i)))

InsideFound(pp, p) ==
  \E i \in 1..Len(pp) :
     PosOf(pp, i) <= p /\ p < PosOf(pp, i) + Len(PathOf(pp, i))

\* two adjacent underscores of the input, both outside every extracted
\* placeholder
StrayDouble(pp) ==
  \E p \in 1..(Len(raw) - 1) :
     /\ raw[p] = US /\ raw[p + 1] = US
     /\ ~InsideFound(pp, p) /\ ~InsideFound(pp, p + 1)

UrlsPlain == \A i \in 1..Len(calls) : ~HasDoubleUnderscore(calls[i].url)

(***************************************************************************)
(* C1                                                                      *)
(***************************************************************************)
\* C1, as claimed: with images enabled, source baidu and a URL returned for
\* every placeholder, there is one call and one replacement per extracted
\* placeholder, and the returned text holds no placeholder token (read in
\* the claim's favour: no token that extract_image_placeholders would find,
\* and only for URLs without adjacent underscores).
C1_NoTokenLeft ==
  Returned /\ BaiduOn /\ AllResolved /\ UrlsPlain =>
     LET pp == Found IN
     /\ Len(calls) = Len(pp)
     /\ Len(content) = Len(raw) + GrowthBefore(pp, Len(calls) + 1)
     /\ extract_image_placeholders(content) = <<>>

\* C1, amended: with images enabled, source baidu and a URL returned for
\* every placeholder, one replacement is made per extracted placeholder, each
\* of one occurrence of its raw token; when moreover no URL holds two
\* adjacent underscores and the input has no two adjacent underscores outside
\* the extracted placeholders, each placeholder is replaced at its own match
\* and the returned text holds no placeholder token.
C1_ReplacedOnce ==
  Returned /\ BaiduOn /\ AllResolved =>
     LET pp == Found IN
     /\ Len(calls) = Len(pp)
     /\ Len(content) = Len(raw) + GrowthBefore(pp, Len(calls) + 1)
     /\ (UrlsPlain /\ ~StrayDouble(pp) =>
           /\ content = PositionalSubst(pp, 1, 1)
           /\ ~HasToken(content))

C1_Witness ==
  /\ Returned /\ BaiduOn /\ AllResolved
  /\ Len(calls) >= 2
  /\ UrlsPlain /\ ~StrayDouble(Found)
  /\ calls[1].url # calls[2].url
  /\ ~HasToken(content)

(***************************************************************************)
(* C2                                                                      *)
(***************************************************************************)
\* C2: whatever the results of the calls, every extracted placeholder is
\* searched, and a placeholder whose call returned no URL still has its raw
\* token at its own position in the returned text.
C2_UnresolvedKept ==
  Returned /\ BaiduOn =>
     LET pp == Found IN
     /\ Len(calls) = Len(pp)
     /\ \A i \in 1..Len(calls) :
          calls[i].url = None =>
             StartsWithAt(content, OwnPosition(pp, i), PathOf(pp, i))

(***************************************************************************)
(* C3                                                                      *)
(***************************************************************************)
\* C3: several placeholders with one raw token and a different URL from each
\* call: the i-th placeholder's match is replaced by the link with the URL
\* of the i-th call.
C3_SameTokenInOrder ==
  LET pp == Found IN
  /\ Returned /\ BaiduOn /\ AllResolved
  /\ Len(calls) = Len(pp) /\ Len(pp) >= 2
  /\ \A i, j \in 1..Len(pp) : PathOf(pp, i) = PathOf(pp, j)
  /\ \A i, j \in 1..Len(calls) : i # j => calls[i].url # calls[j].url
  => \A i \in 1..Len(calls) :
        StartsWithAt(content, OwnPosition(pp, i), LinkOf(pp, i))

(***************************************************************************)
(* C4                                                                      *)
(***************************************************************************)
\* C4: extract_image_placeholders returns the placeholders in strictly
\* increasing order of the offset of their match, each the match found at its
\* offset, with index 1..N in that order and a non-empty trimmed keyword, for
\* the text _process_images is called with; its loop works on that list.
C4_ExtractOrdered ==
  pc \in {"images", "loop"} =>
     LET ps == extract_image_placeholders(raw)
         pp == Found
     IN  /\ Len(ps) = Len(pp)
         /\ \A i \in 1..Len(ps) :
              /\ ps[i].index = i
              /\ ps[i].keyword # <<>>
              /\ Strip(ps[i].keyword) = ps[i].keyword
              /\ ps[i].keyword = Strip(SubSeq(ps[i].path, 3, Len(ps[i].path) - 2))
              /\ StartsWithAt(raw, PosOf(pp, i), ps[i].path)
              /\ MatchEndAt(raw, PosOf(pp, i)) = PosOf(pp, i) + Len(ps[i].path) - 1
              /\ i < Len(ps) => PosOf(pp, i) < PosOf(pp, i + 1)
         /\ pc = "loop" => placeholders = ps

C4_Witness ==
  /\ pc = "loop"
  /\ Len(placeholders) >= 3
  /\ placeholders[1].path # placeholders[2].path
  /\ placeholders[3].index = 3

(***************************************************************************)
(* C5                                                                      *)
(***************************************************************************)
\* C5: the returned text is the input with each placeholder whose call
\* returned a URL replaced, at its own match, by ![keyword](url), and
\* nothing else changed.
C5_ReplacedInPlace ==
  Returned /\ BaiduOn /\ Len(calls) = Len(Found) =>
     content = PositionalSubst(Found, 1, 1)

(***************************************************************************)
(* C6                                                                      *)
(***************************************************************************)
\* C6, as claimed: when no call returns a URL, the returned text is the
\* input, whatever the image configuration.
C6_NoUrlIdentity == Returned /\ NoneResolved => content = raw

\* C6, amended: when no call returns a URL and images are disabled or the
\* search source is baidu, the returned text is the input.
C6_NoUrlIdentityBaidu ==
  Returned /\ NoneResolved /\ (BaiduOn \/ ~config.enabled) => content = raw

C6_Witness ==
  /\ Returned /\ BaiduOn /\ NoneResolved
  /\ Len(calls) >= 2
  /\ content = raw

(***************************************************************************)
(* C7                                                                      *)
(***************************************************************************)
\* C7: with images disabled, _process_images returns its input and no search
\* is made, and the body of the artifact a run writes is the generated text.
C7_DisabledIdentity ==
  ~config.enabled =>
     /\ Returned => content = raw /\ calls = <<>>
     /\ pc = "exited" /\ ret = "True" =>
          /\ files[chapter.id] = Artifact(chapter.id, raw)
          /\ calls = <<>>

C7_Witness ==
  /\ ~config.enabled /\ config.search_source = "baidu"
  /\ pc = "exited" /\ ret = "True"
  /\ HasToken(raw)
  /\ files[chapter.id].body = raw

(***************************************************************************)
(* C8                                                                      *)
(***************************************************************************)
\* C8: for an input without any matching token, extract_image_placeholders
\* returns the empty list, the loop is not entered, and _process_images
\* returns the input without a search, for every image configuration.
C8_NoTokenIdentity ==
  ~HasToken(raw) =>
     /\ extract_image_placeholders(raw) = <<>>
     /\ pc # "loop"
     /\ Returned => content = raw /\ calls = <<>>

C8_Witness ==
  /\ Returned /\ ~HasToken(raw)
  /\ config.enabled /\ config.search_source = "local"
  /\ FindFrom(raw, <<HTTPS_IMAGES>>, 1) # 0
  /\ RewriteUrls(raw, 1) # raw
  /\ content = raw

(***************************************************************************)
(* C9                                                                      *)
(***************************************************************************)
\* the positions of the plan whose chapter has no file
PendingAt == { i \in 1..Len(plan) : files[plan[i]] = NoFile }

\* the chapter at the least pending position, 0 when none is pending
FirstPending ==
  IF PendingAt = {} THEN 0
  ELSE plan[CHOOSE i \in PendingAt : \A j \in PendingAt : i <= j]

\* C9: _get_next_chapter_to_generate returns the first chapter in plan order
\* without a file, for every set of files, and None exactly when every plan
\* chapter has its file; a run without argument works on that chapter.
C9_FirstPending ==
  /\ get_next_chapter_to_generate(plan, files) = FirstPending
  /\ pc = "api" /\ argv = NoArg => chapter.id = FirstPending /\ FirstPending # 0
  /\ pc = "exited" /\ argv = NoArg /\ ret = "False" /\ chapter = NoChapter
       => PendingAt = {}

C9_Witness ==
  /\ pc = "api" /\ argv = NoArg
  /\ Len(plan) = 3
  /\ files[plan[1]] # NoFile /\ files[plan[2]] = NoFile /\ files[plan[3]] # NoFile
  /\ plan[2] < plan[1]
  /\ chapter.id = plan[2]

(***************************************************************************)
(* C10                                                                     *)
(***************************************************************************)
\* the run ended because _call_deepseek_api failed
GenerationFailed ==
  pc = "exited" /\ ret = "False" /\ chapter # NoChapter

\* C10: the process exits with 0 when a chapter was generated or nothing was
\* left to generate, and with 1 when the content generation call failed.
C10_ExitCodes ==
  /\ pc = "exited" /\ ret = "True" => exitCode = 0
  /\ pc = "exited" /\ argv = NoArg /\ ret = "False" /\ chapter = NoChapter
       => exitCode = 0
  /\ GenerationFailed => exitCode = 1

(***************************************************************************)
(* C11                                                                     *)
(***************************************************************************)
\* C11: when the content-generation call fails in generate_next_chapter or
\* generate_specific_chapter, the run returns False, and from its start to
\* its end no chapter file is written and no directory is made: the files
\* and directories on disk are those from before the call.
C11_FailureWritesNothing ==
  [][/\ pc' = "api" => UNCHANGED fsVars
     /\ pc = "api" /\ pc' = "exited" => ret' = "False" /\ UNCHANGED fsVars]_vars

C11_Witness ==
  /\ GenerationFailed
  /\ argv # NoArg
  /\ files[chapter.id] = NoFile
  /\ chapter.id \notin dirs

(***************************************************************************)
(* C12                                                                     *)
(***************************************************************************)
\* C12: over runs without argument, from any files on disk: a run that ends
\* without returning True leaves the pending chapter as it was, so the next
\* run selects the same chapter; a run that returns True has written the
\* first pending chapter of the plan and nothing else; and once no chapter
\* is pending no run calls the API or writes anything.
C12_Restartable ==
  [][LET next == get_next_chapter_to_generate(plan, files) IN
     /\ pc' = "exited" /\ ret' # "True"
          => get_next_chapter_to_generate(plan, files') = next
     /\ pc' = "exited" /\ ret' = "True"
          => /\ next # 0
             /\ files' = [files EXCEPT ![next] = Artifact(next, content)]
     /\ next = 0 => files' = files /\ pc' # "api"]_vars

(***************************************************************************)
(* C13                                                                     *)
(***************************************************************************)
\* the run was started with an integer argument
SpecificRun == argv.kind = "int"

InPlan(id) == \E i \in 1..Len(plan) : plan[i] = id

\* C13: generate_specific_chapter with an id of the plan works on that
\* chapter whether or not its file exists, and when it returns True the file
\* of that id holds the new text in place of the old one, every other file
\* as before; with an id that is not in the plan it returns False, the API
\* is never called, no text is produced and nothing is written.
C13_SpecificChapter ==
  /\ [](SpecificRun /\ InPlan(argv.value) /\ pc # "exited"
          => chapter.id = argv.value)
  /\ [](SpecificRun /\ ~InPlan(argv.value)
          => /\ pc = "exited"
             /\ chapter = NoChapter /\ raw = <<>> /\ calls = <<>>
             /\ ret = "False" \/ (ret = NoRet /\ exitCode = 1))
  /\ [][/\ SpecificRun' /\ ~InPlan(argv'.value) => UNCHANGED fsVars
        /\ SpecificRun /\ pc' = "exited" /\ ret' = "True"
             => /\ InPlan(argv.value)
                /\ files' = [files EXCEPT
                               ![argv.value] = Artifact(argv.value, content)]
       ]_vars

\* the text of a chapter whose file exists has come back from the API, and
\* the plan names the chapter after another one
C13_Witness ==
  /\ pc = "assembled" /\ caller = "main"
  /\ argv = IntArg(1)
  /\ plan = <<2, 1, 3>>
  /\ files[1] = Artifact(1, OldBody)
  /\ content # OldBody

(***************************************************************************)
(* C14                                                                     *)
(***************************************************************************)
\* what stands between the underscores of the i-th token, trimmed
TrimmedInner(pp, i) ==
  Strip(SubSeq(PathOf(pp, i), 3, Len(PathOf(pp, i)) - 2))

\* the keywords a search falls back on when a placeholder has none
FallbackKeywords ==
  { chapter.keywords[k] : k \in 1..Len(chapter.keywords) } \cup { <<"历史">> }

\* C14: with images enabled and the source "baidu", one call of
\* _process_images searches once for every extracted placeholder, in the
\* order of the text; the i-th search is for the trimmed keyword of the
\* i-th placeholder, never for a chapter keyword or the literal fallback.
C14_OneSearchPerPlaceholder ==
  BaiduOn /\ pc \in {"loop", "assembled"} =>
    LET pp == Found IN
    /\ pc = "loop" => Len(calls) = idx - 1 /\ idx <= Len(pp)
    /\ Returned => Len(calls) = Len(pp)
    /\ \A i \in 1..Len(calls) :
         /\ calls[i].keyword = TrimmedInner(pp, i)
         /\ calls[i].keyword \notin FallbackKeywords

C14_Witness ==
  /\ BaiduOn /\ Returned
  /\ Len(calls) = 2
  /\ calls[1].keyword = <<"a">>
  /\ calls[2].keyword = <<"b">>
  /\ PathOf(Found, 2) = <<US, US, "b", SP, US, US>>

(***************************************************************************)
(* C15                                                                     *)
(***************************************************************************)
\* C15: whenever the README is regenerated while every chapter file on
\* disk belongs to a chapter of the plan, the chapter it names as the next
\* one is the chapter _get_next_chapter_to_generate selects for those
\* files, chapters generated out of plan order included.
C15_ReadmeNamesNext ==
  [][(/\ readme' # readme
       /\ \A id \in Ids : ReadmeExists(files, id) => InPlan(id))
     => readme'.next = get_next_chapter_to_generate(plan, files)]_vars

(***************************************************************************)
(* C16                                                                     *)
(***************************************************************************)
\* the chapter a run in progress was started for
SelectedChapter ==
  IF argv = NoArg THEN get_next_chapter_to_generate(plan, files)
  ELSE argv.value

\* C16: a run of generate_next_chapter or generate_specific_chapter changes
\* the file and the directories of no chapter but the selected one, and
\* those only in its last step; the files of all other chapters and the
\* plan stay as they are, whether the run succeeds or fails.
C16_OnlySelectedChapter ==
  [][/\ plan' = plan
     /\ \A id \in Ids :
          (\/ files'[id] # files[id]
           \/ (id \in dirs') # (id \in dirs)
           \/ (id \in imageDirs') # (id \in imageDirs))
          => /\ id = SelectedChapter
             /\ id = chapter.id
             /\ InPlan(id)
             /\ pc = "assembled" /\ pc' = "exited"]_vars

C16_Witness ==
  /\ pc = "exited" /\ ret = "True"
  /\ argv = IntArg(3)
  /\ files[3] = Artifact(3, content)
  /\ files[1] = Artifact(1, OldBody)
  /\ files[2] = NoFile
  /\ plan = <<1, 2, 3>>

====
